---- MODULE Spec2Model ----
(***************************************************************************)
(* Model of the lambda-http-gateway request handler (package main):        *)
(* handler, getRequestId, parseRequest, invoke and sendResponse, with the  *)
(* parts of net/http, strings and encoding/base64 they call.               *)
(*                                                                         *)
(* Strings that the code takes apart (the URL path, base64 text) are       *)
(* sequences of one-character strings; byte slices are sequences of        *)
(* numbers in 0..255.  Strings the code only copies or compares (method,   *)
(* header names and values, request ids) are TLA+ strings.                 *)
(*                                                                         *)
(* Handling units share nothing but the configuration and the identifier   *)
(* generator, so the requests are handled one after the other.  Successive *)
(* results of uuid.NewString are taken to differ.  json.Marshal of the     *)
(* envelope (strings and a map of strings) and the creation of the AWS     *)
(* session are taken to succeed.                                           *)
(***************************************************************************)
EXTENDS Integers, Sequences, FiniteSets, TLC

VARIABLES
    cfgRequestIdHeader, \* os.Getenv("REQUEST_ID_HEADER"), fixed for the process
    reqNo,              \* number of requests dispatched to handler so far
    req,                \* the *http.Request of the request being handled
    pc,                 \* position of the handling unit in handler
    requestId,          \* the requestId field of the handler's log entry
    parsed,             \* functionName, path, requestHeaders, requestBody
    envelope,           \* the lambda.InvokeInput submitted to the backend
    result,             \* statusCode, body, responseHeaders returned by invoke
    err,                \* the error the handler received, "" when none
    w,                  \* the http.ResponseWriter of the request
    pending,            \* response header keys the range loop has not visited
    logs,               \* the log calls made for this request, in order
    calls,              \* per request: number of client.Invoke / w.Write calls
    nextUuid,           \* number of identifiers uuid.NewString has produced
    usedIds,            \* request ids of the earlier requests
    pin,                \* input of a pure function under test
    pout                \* its output

vars == <<cfgRequestIdHeader, reqNo, req, pc, requestId, parsed, envelope,
          result, err, w, pending, logs, calls, nextUuid, usedIds, pin, pout>>

(***************************************************************************)
(* Bounds of the model.                                                    *)
(***************************************************************************)
MaxRequests == 2
ReqPathLen == 3
MaxPathLen == 6

RECURSIVE SeqsUpTo(_, _)
SeqsUpTo(S, n) ==
    IF n = 0 THEN {<<>>}
    ELSE LET shorter == SeqsUpTo(S, n - 1)
         IN  shorter \cup {Append(s, x) : s \in shorter, x \in S}

(***************************************************************************)
(* strings.TrimPrefix, strings.SplitN(s, sep, 2) with a one-character sep. *)
(***************************************************************************)
TrimPrefix(s, c) ==
    IF Len(s) > 0 /\ s[1] = c THEN SubSeq(s, 2, Len(s)) ELSE s

RECURSIVE Index(_, _, _)
\* least i >= from with s[i] = c, or 0 when there is none
Index(s, c, from) ==
    IF from > Len(s) THEN 0
    ELSE IF s[from] = c THEN from
    ELSE Index(s, c, from + 1)

SplitN2(s, c) ==
    LET i == Index(s, c, 1)
    IN  IF i = 0 THEN <<s>>
        ELSE <<SubSeq(s, 1, i - 1), SubSeq(s, i + 1, Len(s))>>

(***************************************************************************)
(* encoding/base64, StdEncoding: the standard alphabet, padded with "=".   *)
(***************************************************************************)
B64Alphabet ==
    <<"A", "B", "C", "D", "E", "F", "G", "H", "I", "J", "K", "L", "M",
      "N", "O", "P", "Q", "R", "S", "T", "U", "V", "W", "X", "Y", "Z",
      "a", "b", "c", "d", "e", "f", "g", "h", "i", "j", "k", "l", "m",
      "n", "o", "p", "q", "r", "s", "t", "u", "v", "w", "x", "y", "z",
      "0", "1", "2", "3", "4", "5", "6", "7", "8", "9", "+", "/">>

\* the decode map: the 6-bit value of a character, -1 for any other character
B64Index(c) ==
    IF \E i \in DOMAIN B64Alphabet : B64Alphabet[i] = c
    THEN (CHOOSE i \in DOMAIN B64Alphabet : B64Alphabet[i] = c) - 1
    ELSE -1

B64Quantum(val) ==
    <<B64Alphabet[((val \div 262144) % 64) + 1],
      B64Alphabet[((val \div 4096) % 64) + 1],
      B64Alphabet[((val \div 64) % 64) + 1],
      B64Alphabet[(val % 64) + 1]>>

RECURSIVE EncodeToString(_)
EncodeToString(src) ==
    IF Len(src) = 0 THEN <<>>
    ELSE IF Len(src) = 1 THEN
        SubSeq(B64Quantum(src[1] * 65536), 1, 2) \o <<"=", "=">>
    ELSE IF Len(src) = 2 THEN
        SubSeq(B64Quantum(src[1] * 65536 + src[2] * 256), 1, 3) \o <<"=">>
    ELSE B64Quantum(src[1] * 65536 + src[2] * 256 + src[3])
             \o EncodeToString(SubSeq(src, 4, Len(src)))

\* DecodeString ignores "\r" and "\n" wherever they stand
StripNewlines(s) == SelectSeq(s, LAMBDA c : c \notin {"\n", "\r"})

RECURSIVE DecodeQuanta(_)
\* [ok, bytes]: ok is FALSE for a CorruptInputError
DecodeQuanta(s) ==
    IF Len(s) = 0 THEN [ok |-> TRUE, bytes |-> <<>>]
    ELSE IF Len(s) < 4 THEN [ok |-> FALSE, bytes |-> <<>>]
    ELSE
        LET i1 == B64Index(s[1])
            i2 == B64Index(s[2])
            i3 == B64Index(s[3])
            i4 == B64Index(s[4])
            rest == SubSeq(s, 5, Len(s))
            bad == [ok |-> FALSE, bytes |-> <<>>]
        IN  IF i1 < 0 \/ i2 < 0 THEN bad
            ELSE IF s[3] = "=" THEN
                IF s[4] = "=" /\ Len(rest) = 0
                THEN [ok |-> TRUE,
                      bytes |-> <<((i1 * 262144 + i2 * 4096) \div 65536) % 256>>]
                ELSE bad
            ELSE IF i3 < 0 THEN bad
            ELSE IF s[4] = "=" THEN
                IF Len(rest) = 0
                THEN LET val == i1 * 262144 + i2 * 4096 + i3 * 64
                     IN  [ok |-> TRUE,
                          bytes |-> <<(val \div 65536) % 256, (val \div 256) % 256>>]
                ELSE bad
            ELSE IF i4 < 0 THEN bad
            ELSE
                LET val == i1 * 262144 + i2 * 4096 + i3 * 64 + i4
                    tail == DecodeQuanta(rest)
                IN  IF tail.ok
                    THEN [ok |-> TRUE,
                          bytes |-> <<(val \div 65536) % 256, (val \div 256) % 256,
                                      val % 256>> \o tail.bytes]
                    ELSE bad

DecodeString(s) == DecodeQuanta(StripNewlines(s))

\* []byte(s) for a string of these characters: the ASCII code of each
AsciiOf(c) ==
    LET i == B64Index(c)
    IN  IF i >= 0 /\ i < 26 THEN 65 + i
        ELSE IF i >= 26 /\ i < 52 THEN 71 + i
        ELSE IF i >= 52 /\ i < 62 THEN i - 4
        ELSE IF c = "+" THEN 43
        ELSE IF c = "/" THEN 47
        ELSE IF c = "=" THEN 61
        ELSE IF c = "\n" THEN 10
        ELSE IF c = "\r" THEN 13
        ELSE 33

StringBytes(s) == [i \in 1..Len(s) |-> AsciiOf(s[i])]

(***************************************************************************)
(* net/textproto.CanonicalMIMEHeaderKey on the header names of the model,  *)
(* http.Header.Get and http.Header.Add.  A header map is a function from   *)
(* a set of names to non-empty sequences of values.                        *)
(***************************************************************************)
CanonicalMIMEHeaderKey(k) ==
    CASE k = "content-type" -> "Content-Type"
      [] k = "x-req-id" -> "X-Req-Id"
      [] OTHER -> k

HeaderGet(h, name) ==
    LET k == CanonicalMIMEHeaderKey(name)
    IN  IF k \in DOMAIN h /\ Len(h[k]) > 0 THEN h[k][1] ELSE ""

HeaderAdd(h, name, value) ==
    LET k == CanonicalMIMEHeaderKey(name)
    IN  [x \in DOMAIN h \cup {k} |->
            IF x = k
            THEN (IF k \in DOMAIN h THEN Append(h[k], value) ELSE <<value>>)
            ELSE h[x]]

EmptyMap == [x \in {} |-> ""]

(***************************************************************************)
(* The inputs of the model: requests, configuration, backend responses.    *)
(***************************************************************************)
PathsUpTo(chars, n) ==
    {<<"/">> \o t : t \in SeqsUpTo(chars, n - 1)}

ReqPaths == PathsUpTo({"/", "a"}, ReqPathLen)

ReqMethods == {"GET", "POST"}

ReqBodies == {<<>>, <<255>>, <<0, 77, 255>>}

\* req.Header: canonical names, each with at least one value
ReqHeaders ==
    {h \in UNION {[names -> {<<"">>, <<"r1", "r2">>}] : names \in SUBSET {"X-Req-Id", "Accept"}} :
        "Accept" \in DOMAIN h => h["Accept"] # <<"">>}

Requests ==
    [method : ReqMethods, path : ReqPaths, header : ReqHeaders, body : ReqBodies]

ConfiguredHeaders == {"", "x-req-id"}

UuidPool == <<"uuid-1", "uuid-2", "uuid-3", "uuid-4">>

StatusCodes == {0, 42, 204, 404}

RespBodies == {<<>>, <<"/", "w", "=", "=">>, <<"A", "A", "=">>}

RespHeaders ==
    {EmptyMap,
     [k \in {"Content-Type"} |-> "text/plain"],
     [k \in {"content-type", "Content-Type"} |->
         IF k = "content-type" THEN "a" ELSE "b"]}

\* the events.APIGatewayProxyResponse values json.Unmarshal can yield
Responses ==
    [StatusCode : StatusCodes, Body : RespBodies,
     IsBase64Encoded : BOOLEAN, Headers : RespHeaders]

NoRequest == [method |-> "", path |-> <<>>, header |-> EmptyMap, body |-> <<>>]

NoParsed ==
    [functionName |-> <<>>, path |-> <<>>, requestHeaders |-> EmptyMap,
     requestBody |-> <<>>]

NoEnvelope ==
    [FunctionName |-> <<>>,
     Payload |-> [httpMethod |-> "", path |-> <<>>, headers |-> EmptyMap,
                  body |-> <<>>, isBase64Encoded |-> FALSE]]

NoResponse ==
    [StatusCode |-> 0, Body |-> <<>>, IsBase64Encoded |-> FALSE,
     Headers |-> EmptyMap]

NoResult ==
    [received |-> FALSE, resp |-> NoResponse, statusCode |-> 0, body |-> <<>>,
     responseHeaders |-> EmptyMap]

NewWriter ==
    [header |-> EmptyMap, status |-> 0, wroteHeader |-> FALSE, body |-> <<>>]

NoCalls == [invoke |-> 0, writeHeader |-> 0, write |-> 0]

NoPure == [done |-> FALSE, panic |-> FALSE, functionName |-> <<>>, path |-> <<>>]

(***************************************************************************)
(* getRequestId                                                            *)
(***************************************************************************)
HeaderRequestId(headerName, r) ==
    IF headerName # "" THEN HeaderGet(r.header, headerName) ELSE ""

NeedsUuid(headerName, r) == HeaderRequestId(headerName, r) = ""

\* getRequestId without the header lookup of lines 62-64
getRequestIdAlwaysGenerated(headerName, r, uuid) == uuid

getRequestId(headerName, r, uuid) ==
    IF NeedsUuid(headerName, r) THEN uuid ELSE HeaderRequestId(headerName, r)

(***************************************************************************)
(* parseRequest: the path split, and the header collection.                *)
(***************************************************************************)
\* parseRequest with line 74 losing the "/" it puts before the rest
ParsePathNoLeadingSlash(p) ==
    LET splitPath == SplitN2(TrimPrefix(p, "/"), "/")
    IN  [done |-> TRUE,
         panic |-> Len(splitPath) < 2,
         functionName |-> splitPath[1],
         path |-> IF Len(splitPath) < 2 THEN <<>> ELSE splitPath[2]]

\* splitPath[1] of a one-element slice is an index out of range: a panic
ParsePath(p) ==
    LET splitPath == SplitN2(TrimPrefix(p, "/"), "/")
    IN  [done |-> TRUE,
         panic |-> Len(splitPath) < 2,
         functionName |-> splitPath[1],
         path |-> IF Len(splitPath) < 2 THEN <<>> ELSE <<"/">> \o splitPath[2]]

\* line 78 taking the last value of a header instead of the first
LastValues(h) == [k \in DOMAIN h |-> h[k][Len(h[k])]]

FirstValues(h) == [k \in DOMAIN h |-> h[k][1]]

Log(level, msg) == Append(logs, [level |-> level, requestId |-> requestId, msg |-> msg])

Init ==
    /\ cfgRequestIdHeader \in ConfiguredHeaders
    /\ reqNo = 0
    /\ req = NoRequest
    /\ pc = "idle"
    /\ requestId = ""
    /\ parsed = NoParsed
    /\ envelope = NoEnvelope
    /\ result = NoResult
    /\ err = ""
    /\ w = NewWriter
    /\ pending = {}
    /\ logs = <<>>
    /\ calls = NoCalls
    /\ nextUuid = 0
    /\ usedIds = {}
    /\ pin = <<>>
    /\ pout = NoPure

\* handler, lines 32-38: the server dispatches a request; the handler reads
\* the configuration, fixes the request id of its log entry and logs.
HandlerEntry ==
    /\ pc = "idle"
    /\ reqNo < MaxRequests
    /\ \E r \in Requests :
        LET id == getRequestId(cfgRequestIdHeader, r, UuidPool[nextUuid + 1])
        IN  /\ req' = r
            /\ requestId' = id
            /\ nextUuid' = IF NeedsUuid(cfgRequestIdHeader, r)
                           THEN nextUuid + 1 ELSE nextUuid
            /\ logs' = <<[level |-> "debug", requestId |-> id, msg |-> "received request"]>>
    /\ reqNo' = reqNo + 1
    /\ pc' = "parse"
    /\ UNCHANGED <<cfgRequestIdHeader, parsed, envelope, result, err, w,
                   pending, calls, usedIds, pin, pout>>

\* handler returns (line 43, 49 or 58) or net/http recovers its panic: the
\* request, the writer and every local of the handling unit are gone.
HandlerExit ==
    /\ pc \in {"done", "panicked"}
    /\ pc' = "idle"
    /\ usedIds' = usedIds \cup {requestId}
    /\ req' = NoRequest
    /\ requestId' = ""
    /\ parsed' = NoParsed
    /\ envelope' = NoEnvelope
    /\ result' = NoResult
    /\ err' = ""
    /\ w' = NewWriter
    /\ pending' = {}
    /\ logs' = <<>>
    /\ calls' = NoCalls
    /\ UNCHANGED <<cfgRequestIdHeader, reqNo, nextUuid, pin, pout>>

\* parseRequest, lines 72-74, on a path with no second segment: the index
\* expression panics; net/http recovers it and drops the connection.
ParsePanic ==
    /\ pc = "parse"
    /\ ParsePath(req.path).panic
    /\ pc' = "panicked"
    /\ UNCHANGED <<cfgRequestIdHeader, reqNo, req, requestId, parsed, envelope,
                   result, err, w, pending, logs, calls, nextUuid, usedIds,
                   pin, pout>>

\* parseRequest, lines 81-84, and handler, lines 41-44: ioutil.ReadAll fails
ParseBodyReadError ==
    /\ pc = "parse"
    /\ ~ParsePath(req.path).panic
    /\ err' = "BodyReadError"
    /\ logs' = Log("error", "BodyReadError")
    /\ pc' = "done"
    /\ UNCHANGED <<cfgRequestIdHeader, reqNo, req, requestId, parsed, envelope,
                   result, w, pending, calls, nextUuid, usedIds, pin, pout>>

\* parseRequest, lines 72-85, returning without error
ParseOk ==
    /\ pc = "parse"
    /\ ~ParsePath(req.path).panic
    /\ parsed' = [functionName |-> ParsePath(req.path).functionName,
                  path |-> ParsePath(req.path).path,
                  requestHeaders |-> FirstValues(req.header),
                  requestBody |-> req.body]
    /\ pc' = "invoke"
    /\ UNCHANGED <<cfgRequestIdHeader, reqNo, req, requestId, envelope, result,
                   err, w, pending, logs, calls, nextUuid, usedIds, pin, pout>>

\* invoke, lines 96-119: the envelope is built and submitted; the handling
\* unit blocks in client.Invoke.
InvokeCall ==
    /\ pc = "invoke"
    /\ logs' = Log("debug", "invoking function")
    /\ envelope' = [FunctionName |-> parsed.functionName,
                    Payload |-> [httpMethod |-> req.method,
                                 path |-> parsed.path,
                                 headers |-> parsed.requestHeaders,
                                 body |-> EncodeToString(parsed.requestBody),
                                 isBase64Encoded |-> TRUE]]
    /\ calls' = [calls EXCEPT !.invoke = @ + 1]
    /\ pc' = "awaiting"
    /\ UNCHANGED <<cfgRequestIdHeader, reqNo, req, requestId, parsed, result,
                   err, w, pending, nextUuid, usedIds, pin, pout>>

\* the handler answering a failed invoke with a 502 instead of returning
InvokeNoResponseBadGateway ==
    /\ pc = "awaiting"
    /\ \E e \in {"InvokeError", "ResponseDecodeError"} :
        /\ err' = e
        /\ logs' = Log("error", e)
    /\ w' = [w EXCEPT !.status = 502, !.wroteHeader = TRUE]
    /\ pc' = "done"
    /\ UNCHANGED <<cfgRequestIdHeader, reqNo, req, requestId, parsed, envelope,
                   result, pending, calls, nextUuid, usedIds, pin, pout>>

\* invoke, lines 119-122 (client.Invoke fails) and lines 126-129 with
\* err # nil (the payload is not a JSON proxy response); handler, lines 47-50
InvokeNoResponse ==
    /\ pc = "awaiting"
    /\ \E e \in {"InvokeError", "ResponseDecodeError"} :
        /\ err' = e
        /\ logs' = Log("error", e)
    /\ pc' = "done"
    /\ UNCHANGED <<cfgRequestIdHeader, reqNo, req, requestId, parsed, envelope,
                   result, w, pending, calls, nextUuid, usedIds, pin, pout>>

\* invoke with line 127 testing only err: a zero status code is passed on
DecodeResponseAnyStatus(resp) ==
    IF resp.IsBase64Encoded
    THEN IF DecodeString(resp.Body).ok
         THEN [err |-> "", statusCode |-> resp.StatusCode,
               body |-> DecodeString(resp.Body).bytes,
               responseHeaders |-> resp.Headers]
         ELSE [err |-> "BodyDecodeError", statusCode |-> 0, body |-> <<>>,
               responseHeaders |-> EmptyMap]
    ELSE [err |-> "", statusCode |-> resp.StatusCode,
          body |-> StringBytes(resp.Body), responseHeaders |-> resp.Headers]

\* invoke with lines 132-139 never decoding: the body text is passed on as is
DecodeResponseNoBase64(resp) ==
    IF resp.StatusCode = 0
    THEN [err |-> "ResponseDecodeError", statusCode |-> 0, body |-> <<>>,
          responseHeaders |-> EmptyMap]
    ELSE [err |-> "", statusCode |-> resp.StatusCode,
          body |-> StringBytes(resp.Body), responseHeaders |-> resp.Headers]

\* invoke, lines 124-142, on an unmarshalled response: what invoke returns
DecodeResponse(resp) ==
    IF resp.StatusCode = 0
    THEN [err |-> "ResponseDecodeError", statusCode |-> 0, body |-> <<>>,
          responseHeaders |-> EmptyMap]
    ELSE IF resp.IsBase64Encoded
    THEN IF DecodeString(resp.Body).ok
         THEN [err |-> "", statusCode |-> resp.StatusCode,
               body |-> DecodeString(resp.Body).bytes,
               responseHeaders |-> resp.Headers]
         ELSE [err |-> "BodyDecodeError", statusCode |-> 0, body |-> <<>>,
               responseHeaders |-> EmptyMap]
    ELSE [err |-> "", statusCode |-> resp.StatusCode,
          body |-> StringBytes(resp.Body), responseHeaders |-> resp.Headers]

ResultOf(resp) ==
    [received |-> TRUE, resp |-> resp,
     statusCode |-> DecodeResponse(resp).statusCode,
     body |-> DecodeResponse(resp).body,
     responseHeaders |-> DecodeResponse(resp).responseHeaders]

\* invoke returns an error for the response; handler, lines 47-50
InvokeBadResponse ==
    /\ pc = "awaiting"
    /\ \E resp \in Responses :
        /\ DecodeResponse(resp).err # ""
        /\ result' = ResultOf(resp)
        /\ err' = DecodeResponse(resp).err
        /\ logs' = Log("error", DecodeResponse(resp).err)
    /\ pc' = "done"
    /\ UNCHANGED <<cfgRequestIdHeader, reqNo, req, requestId, parsed, envelope,
                   w, pending, calls, nextUuid, usedIds, pin, pout>>

\* invoke returns the decoded response; sendResponse starts its range loop
InvokeOk ==
    /\ pc = "awaiting"
    /\ \E resp \in Responses :
        /\ DecodeResponse(resp).err = ""
        /\ result' = ResultOf(resp)
        /\ pending' = DOMAIN resp.Headers
    /\ logs' = Log("debug", "received response")
    /\ pc' = "send_headers"
    /\ UNCHANGED <<cfgRequestIdHeader, reqNo, req, requestId, parsed, envelope,
                   err, w, calls, nextUuid, usedIds, pin, pout>>

\* sendResponse, lines 146-148: one iteration of the loop, in map order
AddHeader ==
    /\ pc = "send_headers"
    /\ \E k \in pending :
        /\ w' = [w EXCEPT !.header = HeaderAdd(@, k, result.responseHeaders[k])]
        /\ pending' = pending \ {k}
    /\ UNCHANGED <<cfgRequestIdHeader, reqNo, req, pc, requestId, parsed,
                   envelope, result, err, logs, calls, nextUuid, usedIds,
                   pin, pout>>

\* net/http checkWriteHeaderCode: WriteHeader panics on any other code
ValidWriteHeaderCode(code) == code >= 100 /\ code <= 999

\* sendResponse with line 149 moved before the loop of lines 146-148
WriteHeaderBeforeHeaders ==
    /\ pc = "send_headers"
    /\ ValidWriteHeaderCode(result.statusCode)
    /\ w' = [w EXCEPT !.status = result.statusCode, !.wroteHeader = TRUE]
    /\ calls' = [calls EXCEPT !.writeHeader = @ + 1]
    /\ pc' = "send_body"
    /\ UNCHANGED <<cfgRequestIdHeader, reqNo, req, requestId, parsed, envelope,
                   result, err, pending, logs, nextUuid, usedIds, pin, pout>>

\* sendResponse, line 149
WriteHeader ==
    /\ pc = "send_headers"
    /\ pending = {}
    /\ ValidWriteHeaderCode(result.statusCode)
    /\ w' = [w EXCEPT !.status = result.statusCode, !.wroteHeader = TRUE]
    /\ calls' = [calls EXCEPT !.writeHeader = @ + 1]
    /\ pc' = "send_body"
    /\ UNCHANGED <<cfgRequestIdHeader, reqNo, req, requestId, parsed, envelope,
                   result, err, pending, logs, nextUuid, usedIds, pin, pout>>

WriteHeaderPanic ==
    /\ pc = "send_headers"
    /\ pending = {}
    /\ ~ValidWriteHeaderCode(result.statusCode)
    /\ pc' = "panicked"
    /\ UNCHANGED <<cfgRequestIdHeader, reqNo, req, requestId, parsed, envelope,
                   result, err, w, pending, logs, calls, nextUuid, usedIds,
                   pin, pout>>

\* the log calls of the handler after sendResponse returned e, lines 53-57
AfterSend(e) ==
    IF e = "" THEN <<[level |-> "info", requestId |-> requestId, msg |-> "proxied request"]>>
    ELSE <<[level |-> "error", requestId |-> requestId, msg |-> e],
           [level |-> "info", requestId |-> requestId, msg |-> "proxied request"]>>

\* net/http bodyAllowedForStatus: Write refuses a body for these codes
BodyAllowedForStatus(code) ==
    ~(code >= 100 /\ code <= 199) /\ code # 204 /\ code # 304

\* sendResponse, lines 150-156, and handler, lines 53-57: the body is written
WriteOk ==
    /\ pc = "send_body"
    /\ BodyAllowedForStatus(w.status) \/ result.body = <<>>
    /\ w' = [w EXCEPT !.body = result.body]
    /\ calls' = [calls EXCEPT !.write = @ + 1]
    /\ logs' = Log("debug", "wrote response") \o AfterSend("")
    /\ pc' = "done"
    /\ UNCHANGED <<cfgRequestIdHeader, reqNo, req, requestId, parsed, envelope,
                   result, err, pending, nextUuid, usedIds, pin, pout>>

\* sendResponse, lines 150-153, and handler, lines 53-57: w.Write fails
\* after n bytes of a body that is not empty, n short of the whole (a write
\* of no bytes returns before anything can fail); the handler logs the error
\* and, having no return there, goes on to line 57
WriteFail ==
    /\ pc = "send_body"
    /\ \E n \in 0..(Len(result.body) - 1) :
        /\ BodyAllowedForStatus(w.status) \/ n = 0
        /\ w' = [w EXCEPT !.body = SubSeq(result.body, 1, n)]
    /\ calls' = [calls EXCEPT !.write = @ + 1]
    /\ err' = "WriteError"
    /\ logs' = logs \o AfterSend("WriteError")
    /\ pc' = "done"
    /\ UNCHANGED <<cfgRequestIdHeader, reqNo, req, requestId, parsed, envelope,
                   result, pending, nextUuid, usedIds, pin, pout>>

Next ==
    \/ HandlerEntry
    \/ HandlerExit
    \/ ParsePanic
    \/ ParseBodyReadError
    \/ ParseOk
    \/ InvokeCall
    \/ InvokeNoResponse
    \/ InvokeBadResponse
    \/ InvokeOk
    \/ AddHeader
    \/ WriteHeader
    \/ WriteHeaderPanic
    \/ WriteOk
    \/ WriteFail

Spec == Init /\ [][Next]_vars

(***************************************************************************)
(* The state of the per-request state machine, read off the position of    *)
(* the handling unit and the error it received.                            *)
(***************************************************************************)
State ==
    CASE pc = "idle" -> "Idle"
      [] pc = "parse" -> "Received"
      [] pc \in {"invoke", "awaiting"} -> "Parsed"
      [] pc \in {"send_headers", "send_body"} -> "Invoked"
      [] pc = "panicked" -> "Panicked"
      [] pc = "done" /\ err = "" -> "Responded"
      [] pc = "done" /\ err = "BodyReadError" -> "ParseFailed"
      [] pc = "done" /\ err \in {"InvokeError", "ResponseDecodeError", "BodyDecodeError"} -> "InvokeFailed"
      [] pc = "done" /\ err = "WriteError" -> "WriteFailed"

(***************************************************************************)
(* The path split alone, on every path of the bounded alphabet.            *)
(***************************************************************************)
InitParse ==
    /\ cfgRequestIdHeader = ""
    /\ reqNo = 0
    /\ req = NoRequest
    /\ pc = "idle"
    /\ requestId = ""
    /\ parsed = NoParsed
    /\ envelope = NoEnvelope
    /\ result = NoResult
    /\ err = ""
    /\ w = NewWriter
    /\ pending = {}
    /\ logs = <<>>
    /\ calls = NoCalls
    /\ nextUuid = 0
    /\ usedIds = {}
    /\ pin \in PathsUpTo({"/", "a", "b"}, MaxPathLen)
    /\ pout = NoPure

ParseOnly ==
    /\ ~pout.done
    /\ pout' = ParsePath(pin)
    /\ UNCHANGED <<cfgRequestIdHeader, reqNo, req, pc, requestId, parsed,
                   envelope, result, err, w, pending, logs, calls, nextUuid,
                   usedIds, pin>>

NextParse == ParseOnly

SpecParse == InitParse /\ [][NextParse]_vars

(***************************************************************************)
(* Properties.                                                             *)
(***************************************************************************)
\* the handling unit has entered handler and not left it yet
InHandler == pc # "idle"

\* the handling unit has reached the end of its handling
Ended == pc \in {"done", "panicked"}

\* a path of the form /name: no slash after the first character
NoSecondSegment(p) ==
    /\ Len(p) >= 1
    /\ p[1] = "/"
    /\ \A i \in 2..Len(p) : p[i] # "/"

\* C1: a request whose path has no second segment ends in ParseFailed with a
\* MalformedPath error returned to the handler, without a panic and without
\* any backend invoke.
C1_MalformedPathIsAnError ==
    (Ended /\ NoSecondSegment(req.path)) =>
        /\ State = "ParseFailed"
        /\ pc # "panicked"
        /\ calls.invoke = 0

\* the transitions the state machine of a request allows, a stay included
AllowedStep(from, to) ==
    \/ from = to
    \/ from = "Idle" /\ to = "Received"
    \/ from = "Received" /\ to \in {"Parsed", "ParseFailed"}
    \/ from = "Parsed" /\ to \in {"Invoked", "ParseFailed", "InvokeFailed"}
    \/ from = "Invoked" /\ to \in {"Responded", "WriteFailed"}
    \/ from \in {"Responded", "ParseFailed", "InvokeFailed", "WriteFailed"}
       /\ to = "Idle"

\* C2: a request moves only along Received -> Parsed -> Invoked -> Responded
\* and into the failure states from the states named for them, the failure
\* states are final, the backend is invoked at most once and only after a
\* successful parse, and the response is written at most once and only after
\* a successful invoke.
C2_StateMachine ==
    [][/\ AllowedStep(State, State')
       /\ calls'.invoke # calls.invoke =>
            (State = "Parsed" /\ calls.invoke = 0 /\ calls'.invoke = 1)
       /\ calls'.write # calls.write /\ State' # "Idle" =>
            (State = "Invoked" /\ calls.write = 0 /\ calls'.write = 1)]_vars

\* the result of the backend is well formed: it has a status code and its
\* body, when flagged as base64, is base64
WellFormed(resp) ==
    /\ resp.StatusCode # 0
    /\ resp.IsBase64Encoded => DecodeString(resp.Body).ok

ExpectedBody(resp) ==
    IF resp.IsBase64Encoded THEN DecodeString(resp.Body).bytes
    ELSE StringBytes(resp.Body)

\* C3 as stated: after any well-formed result the client has received the
\* status code, the headers as they stand in the result, and the body.
C3_AnyStatusDelivered ==
    (Ended /\ result.received /\ WellFormed(result.resp)) =>
        /\ w.status = result.resp.StatusCode
        /\ w.header = [k \in DOMAIN result.resp.Headers |-> <<result.resp.Headers[k]>>]
        /\ w.body = ExpectedBody(result.resp)

\* the values the result's headers give to the canonical name k
ValuesFor(headers, k) ==
    {headers[x] : x \in {y \in DOMAIN headers : CanonicalMIMEHeaderKey(y) = k}}

SeqRange(q) == {q[i] : i \in DOMAIN q}

\* C3, amended: after a well-formed result with a status code in 100..999 the
\* handler does not panic, and when the body write succeeds the client has
\* received that status code unchanged, every header of the result under its
\* canonical name and no other, and the decoded (or literal) body.
C3_ValidStatusDelivered ==
    /\ (pc = "panicked" /\ result.received) =>
            ~ValidWriteHeaderCode(result.resp.StatusCode)
    /\ (pc = "done" /\ err = "" /\ result.received) =>
        /\ WellFormed(result.resp)
        /\ w.status = result.resp.StatusCode
        /\ DOMAIN w.header =
              {CanonicalMIMEHeaderKey(x) : x \in DOMAIN result.resp.Headers}
        /\ \A k \in DOMAIN w.header :
              /\ SeqRange(w.header[k]) = ValuesFor(result.resp.Headers, k)
              /\ Len(w.header[k]) = Cardinality(ValuesFor(result.resp.Headers, k))
        /\ w.body = ExpectedBody(result.resp)
        /\ (result.resp.Body = <<"/", "w", "=", "=">> =>
              w.body = IF result.resp.IsBase64Encoded THEN <<255>>
                       ELSE <<47, 119, 61, 61>>)

\* a 404 whose base64 body and headers reached the client
C3_Witness ==
    /\ pc = "done"
    /\ err = ""
    /\ result.resp.StatusCode = 404
    /\ result.resp.IsBase64Encoded
    /\ w.body = <<255>>
    /\ w.header = [k \in {"Content-Type"} |-> <<"a", "b">>]

\* C4: a path /name/rest with rest not empty parses to functionName = name
\* and subPath = "/" rest, split at the first slash after the leading one.
C4_PathSplit ==
    pout.done =>
        \A i \in 2..(Len(pin) - 1) :
            (pin[i] = "/" /\ \A j \in 2..(i - 1) : pin[j] # "/") =>
                /\ ~pout.panic
                /\ pout.functionName = SubSeq(pin, 2, i - 1)
                /\ pout.path = SubSeq(pin, i, Len(pin))

\* /a/b/a parsed: the rest keeps its own slash
C4_Witness ==
    /\ pout.done
    /\ pin = <<"/", "a", "/", "b", "/", "a">>
    /\ pout.functionName = <<"a">>
    /\ pout.path = <<"/", "b", "/", "a">>

\* C5: a backend result with status code 0 is a ResponseDecodeError whatever
\* else it holds; the request ends in InvokeFailed and nothing of
\* sendResponse has run.
C5_ZeroStatusIsDecodeError ==
    (result.received /\ result.resp.StatusCode = 0) =>
        /\ err = "ResponseDecodeError"
        /\ State = "InvokeFailed"
        /\ calls.writeHeader = 0
        /\ calls.write = 0
        /\ w = NewWriter

\* a status 0 result that is otherwise complete: headers and a base64 body
C5_Witness ==
    /\ result.received
    /\ result.resp.StatusCode = 0
    /\ result.resp.IsBase64Encoded
    /\ result.resp.Body = <<"/", "w", "=", "=">>
    /\ DOMAIN result.resp.Headers = {"Content-Type"}
    /\ State = "InvokeFailed"

\* C6: the envelope submitted to the backend is flagged base64, its body is
\* the base64 text of the request body (empty for an empty body, and it
\* decodes to the request body), its method is the request's, its path the
\* parsed sub-path, its headers the first value of every request header, and
\* the function name travels beside the payload, not in it.
C6_Envelope ==
    calls.invoke > 0 =>
        /\ envelope.Payload.isBase64Encoded
        /\ DecodeString(envelope.Payload.body) = [ok |-> TRUE, bytes |-> req.body]
        /\ (req.body = <<>>) = (envelope.Payload.body = <<>>)
        /\ (req.body = <<255>> => envelope.Payload.body = <<"/", "w", "=", "=">>)
        /\ (req.body = <<0, 77, 255>> => envelope.Payload.body = <<"A", "E", "3", "/">>)
        /\ envelope.Payload.httpMethod = req.method
        /\ envelope.Payload.path = parsed.path
        /\ <<"/">> \o envelope.FunctionName \o envelope.Payload.path = req.path
        /\ \A i \in DOMAIN envelope.FunctionName : envelope.FunctionName[i] # "/"
        /\ DOMAIN envelope.Payload.headers = DOMAIN req.header
        /\ \A k \in DOMAIN req.header :
              envelope.Payload.headers[k] = req.header[k][1]
        /\ DOMAIN envelope.Payload =
              {"httpMethod", "path", "headers", "body", "isBase64Encoded"}

\* a POST with a three-byte body and a two-valued header, in flight
C6_Witness ==
    /\ pc = "awaiting"
    /\ req.method = "POST"
    /\ req.body = <<0, 77, 255>>
    /\ "Accept" \in DOMAIN req.header
    /\ Len(req.header["Accept"]) = 2
    /\ envelope.Payload.headers["Accept"] = "r1"
    /\ envelope.Payload.path = <<"/", "a">>

NothingWritten == w = NewWriter /\ calls.writeHeader = 0 /\ calls.write = 0

LastLog == logs[Len(logs)]

HasLog(level) == \E i \in DOMAIN logs : logs[i].level = level

\* C8: the info line is logged only for a request that reached Responded; a
\* request that ended in a failure state logged an error and no info line.
C8_InfoOnlyOnSuccess ==
    /\ HasLog("info") => State = "Responded"
    /\ State \in {"ParseFailed", "InvokeFailed", "WriteFailed"} =>
          (HasLog("error") /\ ~HasLog("info"))

\* C9: sendResponse applies every header of the result, then writes the
\* status code, then the body in one write; once the status is written no
\* header and no status changes; a failed body write is a WriteError, with
\* no second write and with the status and the headers left as written.
C9_SendOrder ==
    /\ [](/\ w.wroteHeader =>
              /\ pending = {}
              /\ calls.writeHeader = 1
              /\ w.status = result.statusCode
              /\ \A k \in DOMAIN result.responseHeaders :
                    /\ CanonicalMIMEHeaderKey(k) \in DOMAIN w.header
                    /\ result.responseHeaders[k]
                          \in SeqRange(w.header[CanonicalMIMEHeaderKey(k)])
          /\ ~w.wroteHeader => (w.status = 0 /\ calls.write = 0 /\ w.body = <<>>)
          /\ calls.write <= 1
          /\ (pc = "done" /\ err = "WriteError") =>
                (calls.write = 1 /\ w.wroteHeader))
    /\ [][(w.wroteHeader /\ pc' # "idle") =>
              /\ w'.header = w.header
              /\ w'.status = w.status
              /\ w'.wroteHeader]_vars
    /\ [][(calls.write = 1 /\ pc' # "idle") => w' = w]_vars

\* a failed write after two headers and the status were applied
C9_Witness ==
    /\ pc = "done"
    /\ err = "WriteError"
    /\ w.status = 404
    /\ w.header = [k \in {"Content-Type"} |-> <<"b", "a">>]
    /\ calls.write = 1

\* the value of the configured header on the request, "" when it carries none
CarriedId ==
    IF cfgRequestIdHeader # ""
       /\ CanonicalMIMEHeaderKey(cfgRequestIdHeader) \in DOMAIN req.header
    THEN req.header[CanonicalMIMEHeaderKey(cfgRequestIdHeader)][1]
    ELSE ""

Carried ==
    /\ cfgRequestIdHeader # ""
    /\ CanonicalMIMEHeaderKey(cfgRequestIdHeader) \in DOMAIN req.header

Fresh(id) ==
    /\ \E i \in DOMAIN UuidPool : UuidPool[i] = id
    /\ id \notin usedIds

SameIdOnEveryLog == \A i \in DOMAIN logs : logs[i].requestId = requestId

\* C10 as stated: the request id is the value of the configured header
\* whenever the request carries that header, and fresh otherwise.
C10_IdFromCarriedHeader ==
    InHandler =>
        /\ SameIdOnEveryLog
        /\ IF Carried THEN requestId = CarriedId ELSE Fresh(requestId)

\* C10, amended: the request id is the first value of the configured header
\* when the request carries it with a non-empty first value, and otherwise
\* (no header configured, header absent, or its first value empty) an
\* identifier generated for this request and used by no earlier one; every
\* log line of the request carries it.
C10_IdFromNonEmptyHeader ==
    InHandler =>
        /\ SameIdOnEveryLog
        /\ Len(logs) >= 1
        /\ IF Carried /\ CarriedId # ""
           THEN requestId = CarriedId
           ELSE Fresh(requestId)

\* a second request without the header, after a first one that carried it
C10_Witness ==
    /\ reqNo = 2
    /\ pc = "done"
    /\ cfgRequestIdHeader = "x-req-id"
    /\ "X-Req-Id" \notin DOMAIN req.header
    /\ usedIds = {"r1"}
    /\ requestId = "uuid-1"
    /\ Len(logs) >= 3

====
